---- MODULE Spec2Model ----
(***************************************************************************)
(* GazeSync (src/main.py): hands-free scrolling by head gaze and voice.    *)
(*                                                                         *)
(* Two execution contexts share the module-level globals: the voice        *)
(* listener thread (voice_command_listener) and the main video loop.       *)
(* Time is counted in ticks of 0.1 s, so 0.3 s = 3, 1.0 s = 10, 2 s = 20,  *)
(* 3 s = 30 and 5 s = 50.  One iteration of the video loop takes less than *)
(* a tick: every time.time() of an iteration returns the same tick.  A     *)
(* clock value of n ticks stands for the float nearest n/10, and elapsed   *)
(* times are compared as the float arithmetic of the code compares them.   *)
(* The two contexts run statement by statement and interleave freely.      *)
(* Landmark coordinates are normalised to thousandths of the frame size    *)
(* and converted to pixels as the code does.                               *)
(***************************************************************************)
EXTENDS Integers, Sequences, FiniteSets, TLC

VARIABLES
    voice_only_mode,            \* main.py:33
    scroll_enabled,             \* main.py:34
    recalibrated,               \* main.py:35
    calibration_start,          \* main.py:36
    recalibration_timer_start,  \* main.py:37
    pink_boxes,                 \* main.py:183
    scroll_state,               \* main.py:193-198
    sleep_mode,                 \* main.py:188
    last_face_seen_time,        \* main.py:189
    current_time,               \* main.py:222
    now,                        \* the wall clock: the latest value time.time() returned
    step,                       \* history: which statement ran last
    last_frame,                 \* history: which branch the last processed frame took
    cmd,                        \* history: the transcript of the last utterance
    cond,                       \* history: the four conditions of the last frame
    inside,                     \* history: is_all_inside_boxes on the last frame
    acts,                       \* history: input-simulator calls made by the last statement
    calib_frame,                \* history: landmarks of the last (re)calibrating frame
    held,                       \* history: per direction, condition true on every frame since start_time was set
    rise,                       \* history: per direction, time of the rising edge of the current run
    hold_since,                 \* history: first frame of the current run of frames inside the zones
    zones_since,                \* history: time of the frame that installed the current zones
    frame,                      \* main thread: statement reached in the iteration in progress, its landmarks, its process_scroll call
    listener,                   \* listener thread: statement reached in the utterance in progress
    race                        \* history of the interleaving of the two threads

vars == <<voice_only_mode, scroll_enabled, recalibrated, calibration_start,
          recalibration_timer_start, pink_boxes, scroll_state, sleep_mode,
          last_face_seen_time, current_time, now, step, last_frame, cmd, cond,
          inside,
          acts, calib_frame, held, rise, hold_since, zones_since,
          frame, listener, race>>

----------------------------------------------------------------------------
(* Program constants (ticks of 0.1 s, pixels). *)

None == -1                      \* Python None of the optional timestamps

forehead_idx == 10
chin_idx == 152
centre_idx == 168
tracked_idxs_x == <<forehead_idx, chin_idx, centre_idx>>

recalibration_hold_time == 30   \* 3 s
dead_zone == 20                 \* pixels
scroll_delay == 3               \* 0.3 s
sleep_trigger_duration == 50    \* 5 s
calibration_hold_time == 20     \* the literal 2 (seconds) of the initial hold
sustain_time == 10              \* the literal 1.0 (seconds) before repeats

(* Bounds of the model. *)

Epoch == 100                    \* time.time() when the program starts
Horizon == 60                   \* ticks of wall-clock time explored
RecalDeadline == 15             \* ticks after which no utterance and no dropout occurs
LiveHorizon == 80               \* ticks explored where every calibration has to complete
ScenarioHorizon == 75           \* ticks explored by the worked scenario: holds before, across and after 16.0 s
FrameW == 640                   \* frame.shape[1]
FrameH == 480                   \* frame.shape[0]

CoarseSteps == {20}             \* ticks between two frames
FineSteps == {1}                \* a camera delivering a frame every 0.1 s
LiveSteps == {10}
ThreadSteps == {10, 20}
SleepSteps == {5, 20}
TrackSteps == {5, 10}              \* ticks between two frames of a calibrated tracker
VoiceSteps == {0, 5}            \* ticks between the last clock read and an utterance
Instant == {0}                  \* an utterance right after the last clock read

Directions == <<"left", "right", "up", "down">>
DirSet == {"left", "right", "up", "down"}
TrackedSet == {tracked_idxs_x[i] : i \in 1..Len(tracked_idxs_x)}

----------------------------------------------------------------------------
(* Landmarks: a face is a function from landmark index to <<x, y>>, in     *)
(* thousandths of the frame width and height.                              *)

Face(fx, fy, cx, cy, mx, my) ==
    [idx \in TrackedSet |->
        IF idx = forehead_idx THEN <<fx, fy>>
        ELSE IF idx = chin_idx THEN <<cx, cy>>
        ELSE <<mx, my>>]

Neutral == Face(500, 300, 500, 700, 500, 450)
Drift == Face(510, 310, 510, 710, 510, 460)       \* still inside zones around Neutral
TurnedLeft == Face(440, 300, 440, 700, 440, 450)  \* Neutral is to its right
Stretched == Face(500, 250, 500, 750, 500, 450)   \* forehead up and chin down

CalibFaces == {Neutral, Drift, TurnedLeft}

\* faces that tell the landmarks and the zone edges apart
Tilted == Face(460, 300, 540, 700, 500, 450)      \* forehead to the left, chin to the right
OnEdge == Face(469, 259, 469, 742, 469, 492)      \* on the left, top and bottom edges of Neutral's zones
PastEdge == Face(468, 300, 468, 700, 468, 450)    \* one pixel left of Neutral's zones
GeometryFaces == {Neutral, TurnedLeft, Stretched, Tilted, OnEdge, PastEdge}
ScenarioFaces == {Neutral, TurnedLeft}
ThreadFaces == {Neutral, TurnedLeft}

\* int(lm.landmark[idx].x * w): truncation of a non-negative product
Px(n, dim) == (n * dim) \div 1000

px(lm, idx) == Px(lm[idx][1], FrameW)
py(lm, idx) == Px(lm[idx][2], FrameH)

----------------------------------------------------------------------------
(* Input simulator calls. *)

Event(op, amount, key) == [op |-> op, amount |-> amount, key |-> key]

scroll_once(direction) ==
    IF direction = "up" THEN << Event("scroll", 300, "") >>
    ELSE IF direction = "down" THEN << Event("scroll", -300, "") >>
    ELSE IF direction = "left"
         THEN [i \in 1..3 |-> Event("press", 0, "left")]
    ELSE IF direction = "right"
         THEN [i \in 1..3 |-> Event("press", 0, "right")]
    ELSE << >>

zoom_control(direction) ==
    IF direction = "in" THEN << Event("hotkey", 0, "ctrl +") >>
    ELSE IF direction = "out" THEN << Event("hotkey", 0, "ctrl -") >>
    ELSE IF direction = "reset" THEN << Event("hotkey", 0, "ctrl 0") >>
    ELSE << >>

----------------------------------------------------------------------------
(* Voice command matching: `any(word in command for word in [...])`.       *)

Contains(command, word) ==
    \E i \in 1..(Len(command) - Len(word) + 1) :
        SubSeq(command, i, i + Len(word) - 1) = word

any_in(command, words) == \E k \in 1..Len(words) : Contains(command, words[k])

stop_words == <<"stop", "pause", "dop", "top", "was", "cause">>
start_words == <<"start", "resume", "dark", "star", "st", "stat", "that", "presume">>
recalibrate_words ==
    <<"situation", "sitting", "acqusition", "position", "reposition", "barate",
      "deliberately", "deliberate", "calibrate", "celebrate", "gallery",
      "recallibrate", "recal", "call", "callibrate", "bread", "break", "brate",
      "rate", "ate", "at", "eat", "libe", "libre", "lib">>
zoom_in_words ==
    <<"zoom in", "soon in", "room in", "gum in", "go in", "do min", "boomin",
      "no mean", "domain", "you mean", "zoomin", "zooming">>
zoom_out_words ==
    <<"zoom out", "soon out", "room out", "doom out", "go out", "boom out", "zoomout">>
zoom_reset_words ==
    <<"reset zoom", "default zoom", "normal zoom", "zoom reset", "zoom default",
      "zoom normal", "original", "reset", "default", "default view", "reset view",
      "research zoom", "default real", "said view", "research you">>
up_words ==
    <<"up", "cup", "hub", "pup", "sub", "hup", "dup", "tup", "sup", "zup", "bup",
      "op", "pop">>
down_words ==
    <<"down", "drown", "downry", "dong", "lawn", "lown", "don't", "don", "down",
      "dowd", "dome", "dome", "dome", "dome", "nown", "now">>
left_words ==
    <<"left", "let", "let's", "this", "listen", "lefty", "lost", "loft", "less",
      "lives", "life", "live">>
right_words ==
    <<"right", "night", "plight", "height", "knight", "light", "fight", "might",
      "flight">>

Categories ==
    <<"stop", "start", "recalibrate", "zoom_in", "zoom_out", "zoom_reset",
      "up", "down", "left", "right">>
CategorySet == {Categories[i] : i \in 1..Len(Categories)}

Keywords(c) ==
    CASE c = "stop" -> stop_words
      [] c = "start" -> start_words
      [] c = "recalibrate" -> recalibrate_words
      [] c = "zoom_in" -> zoom_in_words
      [] c = "zoom_out" -> zoom_out_words
      [] c = "zoom_reset" -> zoom_reset_words
      [] c = "up" -> up_words
      [] c = "down" -> down_words
      [] c = "left" -> left_words
      [] c = "right" -> right_words

\* Finalised lower-case transcripts the recogniser may deliver.
Utterances ==
    { "", "hello", "stop", "please stop now", "start", "start zoom in", "that",
      "recalibrate", "recalibrate and zoom in", "zoom in please",
      "zoom in zoom out", "zoom out", "zoom out reset", "reset zoom",
      "reset up", "up", "down", "left", "right", "look up and down",
      "down left", "left right" }

\* The transcripts that switch scrolling, and those that force a calibration.
SwitchUtterances == {"stop", "start"}
CalibUtterances == {"recalibrate", "start"}
ThreadUtterances == {"stop", "start", "recalibrate"}

\* The outcome of every keyword test of the listener, per transcript.
keyword_match ==
    [u \in Utterances |-> [c \in CategorySet |-> any_in(u, Keywords(c))]]

\* faulty variant: the three Zoom tests come before the Start test
voice_intent_zoom_first(command, vo, se) ==
    LET m == keyword_match[command]
    IN  IF command = "" THEN "none"
        ELSE IF m["stop"] THEN "stop"
        ELSE IF m["zoom_in"] THEN "zoom_in"
        ELSE IF m["zoom_out"] THEN "zoom_out"
        ELSE IF m["zoom_reset"] THEN "zoom_reset"
        ELSE IF m["start"] THEN "start"
        ELSE IF m["recalibrate"] THEN "recalibrate"
        ELSE IF vo /\ se
             THEN IF m["up"] THEN "up"
                  ELSE IF m["down"] THEN "down"
                  ELSE IF m["left"] THEN "left"
                  ELSE IF m["right"] THEN "right"
                  ELSE "none"
        ELSE "none"

\* faulty variant: the directional branch ignores voice_only_mode
voice_intent_ungated(command, vo, se) ==
    LET m == keyword_match[command]
    IN  IF command = "" THEN "none"
        ELSE IF m["stop"] THEN "stop"
        ELSE IF m["start"] THEN "start"
        ELSE IF m["recalibrate"] THEN "recalibrate"
        ELSE IF m["zoom_in"] THEN "zoom_in"
        ELSE IF m["zoom_out"] THEN "zoom_out"
        ELSE IF m["zoom_reset"] THEN "zoom_reset"
        ELSE IF se
             THEN IF m["up"] THEN "up"
                  ELSE IF m["down"] THEN "down"
                  ELSE IF m["left"] THEN "left"
                  ELSE IF m["right"] THEN "right"
                  ELSE "none"
        ELSE "none"

(* The if/elif chain of the listener, lines 94-142: the branch a transcript
   takes.  vo and se are voice_only_mode and scroll_enabled. *)
voice_intent(command, vo, se) ==
    LET m == keyword_match[command]
    IN  IF command = "" THEN "none"
        ELSE IF m["stop"] THEN "stop"
        ELSE IF m["start"] THEN "start"
        ELSE IF m["recalibrate"] THEN "recalibrate"
        ELSE IF m["zoom_in"] THEN "zoom_in"
        ELSE IF m["zoom_out"] THEN "zoom_out"
        ELSE IF m["zoom_reset"] THEN "zoom_reset"
        ELSE IF vo /\ se
             THEN IF m["up"] THEN "up"
                  ELSE IF m["down"] THEN "down"
                  ELSE IF m["left"] THEN "left"
                  ELSE IF m["right"] THEN "right"
                  ELSE "none"
        ELSE "none"

\* faulty variant: Start also forces a calibration
voice_effect_start_recalibrates(intent, se, rc, cs, t) ==
    LET same == [scroll_enabled |-> se, recalibrated |-> rc,
                 calibration_start |-> cs, acts |-> << >>]
    IN  CASE intent = "stop" -> [same EXCEPT !.scroll_enabled = FALSE]
          [] intent = "start" ->
                [same EXCEPT !.scroll_enabled = TRUE, !.recalibrated = FALSE,
                             !.calibration_start = t]
          [] intent = "recalibrate" ->
                [same EXCEPT !.recalibrated = FALSE, !.calibration_start = t]
          [] intent = "zoom_in" -> [same EXCEPT !.acts = zoom_control("in")]
          [] intent = "zoom_out" -> [same EXCEPT !.acts = zoom_control("out")]
          [] intent = "zoom_reset" -> [same EXCEPT !.acts = zoom_control("reset")]
          [] intent \in DirSet -> [same EXCEPT !.acts = scroll_once(intent)]
          [] OTHER -> same

(* The statements of the branch taken, run with nothing in between.  se,
   rc, cs are scroll_enabled, recalibrated and calibration_start; t is what
   time.time() returns.  The Recalibrate branch is two statements (lines 112
   and 113): ListenerDispatch takes the first from here and ListenerSetStart
   performs the second, so that the main loop can run between them. *)
voice_effect(intent, se, rc, cs, t) ==
    LET same == [scroll_enabled |-> se, recalibrated |-> rc,
                 calibration_start |-> cs, acts |-> << >>]
    IN  CASE intent = "stop" -> [same EXCEPT !.scroll_enabled = FALSE]
          [] intent = "start" -> [same EXCEPT !.scroll_enabled = TRUE]
          [] intent = "recalibrate" ->
                [same EXCEPT !.recalibrated = FALSE, !.calibration_start = t]
          [] intent = "zoom_in" -> [same EXCEPT !.acts = zoom_control("in")]
          [] intent = "zoom_out" -> [same EXCEPT !.acts = zoom_control("out")]
          [] intent = "zoom_reset" -> [same EXCEPT !.acts = zoom_control("reset")]
          [] intent \in DirSet -> [same EXCEPT !.acts = scroll_once(intent)]
          [] OTHER -> same

(* The body of the listener loop for one finalised transcript. *)
voice_command(command, vo, se, rc, cs, t) ==
    voice_effect(voice_intent(command, vo, se), se, rc, cs, t)

----------------------------------------------------------------------------
(* Calibration zones and gaze conditions. *)

Min(S) == CHOOSE x \in S : \A y \in S : x <= y
Max(S) == CHOOSE x \in S : \A y \in S : x >= y

\* faulty variant: the bottom edge is taken above the landmark
Zone_collapsed(lx, ly) ==
    <<lx - dead_zone, lx + dead_zone, ly - dead_zone, ly - dead_zone>>

\* (lx - dead_zone, lx + dead_zone, ly - dead_zone, ly + dead_zone)
Zone(lx, ly) == <<lx - dead_zone, lx + dead_zone, ly - dead_zone, ly + dead_zone>>

\* for idx in tracked_idxs_x: pink_boxes[idx] = (...)
Snapshot(lm) == [idx \in TrackedSet |-> Zone(px(lm, idx), py(lm, idx))]

is_all_inside_boxes(lm, boxes) ==
    \A idx \in TrackedSet :
        /\ boxes[idx][1] <= px(lm, idx) /\ px(lm, idx) <= boxes[idx][2]
        /\ boxes[idx][3] <= py(lm, idx) /\ py(lm, idx) <= boxes[idx][4]

\* int(np.mean([pt[0] for pt in current_points]))
avg_x(lm) ==
    (px(lm, tracked_idxs_x[1]) + px(lm, tracked_idxs_x[2]) + px(lm, tracked_idxs_x[3]))
        \div Len(tracked_idxs_x)

overall_left(boxes) == Min({boxes[idx][1] : idx \in TrackedSet})
overall_right(boxes) == Max({boxes[idx][2] : idx \in TrackedSet})

\* faulty variant: a landmark on the edge of its zone is beyond it
conditions_inclusive(lm, boxes) ==
    [d \in DirSet |->
        CASE d = "left" -> avg_x(lm) <= overall_left(boxes)
          [] d = "right" -> avg_x(lm) >= overall_right(boxes)
          [] d = "up" -> py(lm, forehead_idx) <= boxes[forehead_idx][3]
          [] d = "down" -> py(lm, chin_idx) >= boxes[chin_idx][4]]

\* faulty variant: the right condition compares the wrong way
conditions_right_flipped(lm, boxes) ==
    [d \in DirSet |->
        CASE d = "left" -> avg_x(lm) < overall_left(boxes)
          [] d = "right" -> avg_x(lm) < overall_right(boxes)
          [] d = "up" -> py(lm, forehead_idx) < boxes[forehead_idx][3]
          [] d = "down" -> py(lm, chin_idx) > boxes[chin_idx][4]]

\* The four conditions handed to process_scroll.
conditions(lm, boxes) ==
    [d \in DirSet |->
        CASE d = "left" -> avg_x(lm) < overall_left(boxes)
          [] d = "right" -> avg_x(lm) > overall_right(boxes)
          [] d = "up" -> py(lm, forehead_idx) < boxes[forehead_idx][3]
          [] d = "down" -> py(lm, chin_idx) > boxes[chin_idx][4]]

----------------------------------------------------------------------------
(* Clock arithmetic.  time.time() returns a binary float (IEEE double): the
   clock value of n ticks is the double nearest n/10 s, which is n/10 only
   when n is a multiple of 5.  The code subtracts two clock values and
   compares the difference with a literal (lines 242, 277, 305, 318).  The
   subtraction is exact (the operands are within a factor 2 of each other,
   or one of them is 0), so the difference of the values of t and since
   ticks is (t - since)/10 s plus the difference of their rounding errors.
   The errors are far below a tick: they decide the comparison only when
   t - since is exactly the bound. *)

\* the error of rounding r/10 units to the nearest unit, in tenths of a unit
nearest_err(r) == IF r < 5 THEN 0 - r ELSE 10 - r

\* float(n/10) - n/10 in units of 2^-53/10 s, for the clock values 0 and
\* 8.0 s up to 32.0 s: a double in [8, 16) is a multiple of 2^-49 and
\* 2^49 % 10 = 2; a double in [16, 32) is a multiple of 2^-48 and 2^48 % 10 = 6
float_err(n) ==
    IF n = 0 THEN 0
    ELSE IF n < 160 THEN 16 * nearest_err((2 * n) % 10)
    ELSE 32 * nearest_err((6 * n) % 10)

\* the error of the literal of the bound, in the same unit: 1.0, 2, 3 and 5
\* are exact, 0.3 is the double 0.299999999999999988897769753748...
literal_err(bound) == IF bound = scroll_delay THEN 0 - 1 ELSE 0

\* faulty variant: the clock values are exact tenths of a second
elapsed_at_least_exact(t, since, bound) == t - since >= bound

\* `t - since >= bound` on clock values
elapsed_at_least(t, since, bound) ==
    \/ t - since > bound
    \/ t - since = bound /\ float_err(t) - float_err(since) >= literal_err(bound)

\* `t - since > bound` on clock values
elapsed_over(t, since, bound) ==
    \/ t - since > bound
    \/ t - since = bound /\ float_err(t) - float_err(since) > literal_err(bound)

----------------------------------------------------------------------------
(* The scroll debouncer.  state is scroll_state[direction], enabled is the  *)
(* value of scroll_enabled the call reads, t is current_time.               *)

\* faulty variant: scroll_enabled is not consulted
process_scroll_unguarded(state, direction, condition, enabled, t) ==
    IF condition
    THEN IF state.start_time = None
         THEN [state |-> [start_time |-> t, last_scroll_time |-> t],
               acts |-> scroll_once(direction)]
         ELSE IF /\ elapsed_at_least(t, state.start_time, sustain_time)
                 /\ elapsed_at_least(t, state.last_scroll_time, scroll_delay)
              THEN [state |-> [state EXCEPT !.last_scroll_time = t],
                    acts |-> scroll_once(direction)]
              ELSE [state |-> state, acts |-> << >>]
    ELSE [state |-> [state EXCEPT !.start_time = None], acts |-> << >>]

process_scroll(state, direction, condition, enabled, t) ==
    IF ~enabled THEN [state |-> state, acts |-> << >>]
    ELSE IF condition
         THEN IF state.start_time = None
              THEN [state |-> [start_time |-> t, last_scroll_time |-> t],
                    acts |-> scroll_once(direction)]
              ELSE IF /\ elapsed_at_least(t, state.start_time, sustain_time)
                      /\ elapsed_at_least(t, state.last_scroll_time, scroll_delay)
                   THEN [state |-> [state EXCEPT !.last_scroll_time = t],
                         acts |-> scroll_once(direction)]
                   ELSE [state |-> state, acts |-> << >>]
    ELSE [state |-> [state EXCEPT !.start_time = None], acts |-> << >>]

\* faulty variant: the hold lasts one second
HoldComplete_one_second(t, start) == elapsed_at_least(t, start, 10)

\* time.time() - calibration_start >= 2
HoldComplete(t, start) == elapsed_at_least(t, start, calibration_hold_time)

\* lines 299-314; refreshed tells whether lines 306-311 ran
automatic_recalibration(lm, boxes, timer, t) ==
    IF is_all_inside_boxes(lm, boxes)
    THEN IF timer = None
         THEN [pink_boxes |-> boxes, recalibration_timer_start |-> t,
               refreshed |-> FALSE]
         ELSE IF elapsed_at_least(t, timer, recalibration_hold_time)
              THEN [pink_boxes |-> Snapshot(lm), recalibration_timer_start |-> None,
                    refreshed |-> TRUE]
              ELSE [pink_boxes |-> boxes, recalibration_timer_start |-> timer,
                    refreshed |-> FALSE]
    ELSE [pink_boxes |-> boxes, recalibration_timer_start |-> None,
          refreshed |-> FALSE]

\* faulty variant: sleep begins at exactly sleep_trigger_duration
EntersSleep_inclusive(t, last_seen, asleep) ==
    elapsed_at_least(t, last_seen, sleep_trigger_duration) /\ ~asleep

\* current_time - last_face_seen_time > sleep_trigger_duration and not sleep_mode
EntersSleep(t, last_seen, asleep) ==
    elapsed_over(t, last_seen, sleep_trigger_duration) /\ ~asleep

----------------------------------------------------------------------------
(* The state after start-up.  In voice-only mode the main thread never     *)
(* reaches the face-tracking state; it is given its initial values.        *)

NoCond == [d \in DirSet |-> FALSE]
NoTimes == [d \in DirSet |-> None]

\* no iteration in progress; fired, the directions scroll_once was called
\* for by the iteration in progress
IdleFrame == [pc |-> "idle", lm |-> << >>, dir |-> 0, fired |-> {}]

\* history of the interleaving: quiet (loud), the iteration in progress began
\* with scroll_enabled false (true) and no Start (Stop) was applied since;
\* checked, the value of scroll_enabled the process_scroll call in progress
\* read; stopped, a Stop was applied since that read; recal_at, the time of
\* the last Recalibrate; owed, no iteration began since its two writes;
\* must_see, the iteration in progress is the first that began after them;
\* hold_read, the value of calibration_start the iteration in progress read
\* at line 242
NoRace == [quiet |-> FALSE, loud |-> FALSE, checked |-> FALSE, stopped |-> FALSE,
           recal_at |-> None, owed |-> FALSE, must_see |-> FALSE,
           hold_read |-> None]

Init ==
    /\ voice_only_mode \in BOOLEAN
    /\ scroll_enabled = TRUE
    /\ recalibrated = FALSE
    /\ calibration_start = None
    /\ recalibration_timer_start = None
    /\ pink_boxes = << >>
    /\ scroll_state = [d \in DirSet |-> [start_time |-> None, last_scroll_time |-> 0]]
    /\ sleep_mode = FALSE
    /\ last_face_seen_time = Epoch
    /\ current_time = None
    /\ now = Epoch
    /\ step = "init"
    /\ last_frame = "none"
    /\ cmd = ""
    /\ cond = NoCond
    /\ inside = FALSE
    /\ acts = << >>
    /\ calib_frame = << >>
    /\ held = NoCond
    /\ rise = NoTimes
    /\ hold_since = None
    /\ zones_since = None
    /\ frame = IdleFrame
    /\ listener = "idle"
    /\ race = NoRace

----------------------------------------------------------------------------
(* The two threads statement by statement.  The listener thread (line 145)
   and the main loop share scroll_enabled, recalibrated and
   calibration_start without a lock; each read and each write of one of
   them is one step, and the steps of the two threads interleave freely.
   The statements of an iteration that touch only what the main thread
   owns (pink_boxes, scroll_state, recalibration_timer_start, sleep_mode,
   last_face_seen_time) are grouped. *)

\* the history of the frames, left alone by a statement that ends no
\* call of process_scroll and no branch
loopHistory == <<last_frame, cond, inside, calib_frame, held, rise, hold_since,
                 zones_since>>

\* the iteration ends: the main thread goes back to cap.read()
EndOfIteration(r) ==
    [r EXCEPT !.quiet = FALSE, !.loud = FALSE, !.checked = FALSE,
              !.stopped = FALSE, !.must_see = FALSE, !.hold_read = None]

\* after the process_scroll call number frame.dir: the next call, or line 299
AfterCall(f) ==
    IF f.dir < Len(Directions)
    THEN [f EXCEPT !.pc = "l267", !.dir = f.dir + 1]
    ELSE [f EXCEPT !.pc = "l299", !.dir = 0]

(* History of the hold inside the zones: the run goes on while every frame
   with a face has all tracked landmarks inside the zones pink_boxes held
   when the frame began; a snapshot starts a run. *)
HoldSince(lm, boxes, since, snapshot, t) ==
    IF DOMAIN boxes # {} /\ is_all_inside_boxes(lm, boxes)
    THEN IF since = None THEN t ELSE since
    ELSE IF snapshot THEN t ELSE None

\* history of a debouncer after a call of process_scroll on condition c that
\* took its state from before to after: was the condition true on every call
\* since start_time was set
HeldAfter(was, before, after, c) ==
    IF before.start_time = None /\ after.start_time # None
    THEN TRUE
    ELSE IF ~c THEN FALSE ELSE was

\* history of a direction after a call of process_scroll at time t that read
\* scroll_enabled as enabled: the time of the rising edge of the run of
\* tracked frames with the condition true and scrolling enabled
RiseAfter(was, before, tracked, enabled, c, t) ==
    IF enabled /\ c /\ tracked
    THEN IF was # None THEN was
         ELSE IF ~before THEN t ELSE None
    ELSE None

(* cap.read() fails: `continue`, nothing is processed. *)
FrameSkipped(S) ==
    /\ ~voice_only_mode
    /\ frame.pc = "idle"
    /\ \E dt \in S :
        /\ now + dt <= Epoch + Horizon
        /\ now' = now + dt
    /\ step' = "skip"
    /\ cmd' = ""
    /\ acts' = << >>
    /\ UNCHANGED <<voice_only_mode, scroll_enabled, recalibrated, calibration_start,
                   recalibration_timer_start, pink_boxes, scroll_state, sleep_mode,
                   last_face_seen_time, current_time, frame, listener, race>>
    /\ UNCHANGED loopHistory

\* faulty variant: a frame without a face releases the four debouncers
FrameNoFace_releases(S) ==
    /\ ~voice_only_mode
    /\ frame.pc = "idle"
    /\ \E dt \in S :
        LET t == now + dt
        IN  /\ t <= Epoch + Horizon
            /\ now' = t
            /\ current_time' = t
            /\ sleep_mode' =
                   IF EntersSleep(t, last_face_seen_time, sleep_mode)
                   THEN TRUE ELSE sleep_mode
    /\ scroll_state' = [d \in DirSet |-> [scroll_state[d] EXCEPT !.start_time = None]]
    /\ step' = "noface"
    /\ last_frame' = "noface"
    /\ cmd' = ""
    /\ cond' = NoCond
    /\ inside' = FALSE
    /\ acts' = << >>
    /\ rise' = NoTimes
    /\ UNCHANGED <<voice_only_mode, scroll_enabled, recalibrated, calibration_start,
                   recalibration_timer_start, pink_boxes,
                   last_face_seen_time, calib_frame, held, hold_since,
                   zones_since, frame, listener, race>>

(* lines 213-222 and 316-320: one iteration of the video loop on a frame
   without a face; it reads and writes only what the main thread owns *)
FrameNoFace(S) ==
    /\ ~voice_only_mode
    /\ frame.pc = "idle"
    /\ \E dt \in S :
        LET t == now + dt
        IN  /\ t <= Epoch + Horizon
            /\ now' = t
            /\ current_time' = t
            /\ sleep_mode' =
                   IF EntersSleep(t, last_face_seen_time, sleep_mode)
                   THEN TRUE ELSE sleep_mode
    /\ step' = "noface"
    /\ last_frame' = "noface"
    /\ cmd' = ""
    /\ cond' = NoCond
    /\ inside' = FALSE
    /\ acts' = << >>
    /\ rise' = NoTimes
    /\ UNCHANGED <<voice_only_mode, scroll_enabled, recalibrated, calibration_start,
                   recalibration_timer_start, pink_boxes, scroll_state,
                   last_face_seen_time, calib_frame, held, hold_since,
                   zones_since, frame, listener, race>>

(* lines 213-235: an iteration begins on a frame with a face; the clock is
   explored up to Epoch + H *)
LoopRead(F, S, H) ==
    /\ ~voice_only_mode
    /\ frame.pc = "idle"
    /\ \E lm \in F, dt \in S :
        LET t == now + dt
        IN  /\ t <= Epoch + H
            /\ now' = t
            /\ current_time' = t
            /\ last_face_seen_time' = t
            /\ frame' = [pc |-> "l238", lm |-> lm, dir |-> 0, fired |-> {}]
    /\ sleep_mode' = FALSE
    /\ race' = [race EXCEPT !.quiet = ~scroll_enabled, !.loud = scroll_enabled,
                            !.checked = FALSE, !.stopped = FALSE,
                            !.owed = FALSE, !.must_see = race.owed,
                            !.hold_read = None]
    /\ step' = "read"
    /\ cmd' = ""
    /\ acts' = << >>
    /\ UNCHANGED <<voice_only_mode, scroll_enabled, recalibrated, calibration_start,
                   recalibration_timer_start, pink_boxes, scroll_state, listener>>
    /\ UNCHANGED loopHistory

(* line 238: `if not recalibrated:` *)
LoopCheckCalibrated ==
    /\ frame.pc = "l238"
    /\ IF recalibrated
       THEN /\ frame' = [frame EXCEPT !.pc = "l267", !.dir = 1]
            /\ UNCHANGED loopHistory
       ELSE /\ frame' = [frame EXCEPT !.pc = "l240"]
            /\ last_frame' = "calib"
            /\ cond' = NoCond
            /\ inside' = FALSE
            /\ rise' = NoTimes
            /\ hold_since' = HoldSince(frame.lm, pink_boxes, hold_since, FALSE,
                                       current_time)
            /\ UNCHANGED <<calib_frame, held, zones_since>>
    /\ step' = "l238"
    /\ cmd' = ""
    /\ acts' = << >>
    /\ UNCHANGED <<voice_only_mode, scroll_enabled, recalibrated, calibration_start,
                   recalibration_timer_start, pink_boxes, scroll_state, sleep_mode,
                   last_face_seen_time, current_time, now, listener, race>>

(* line 240: `if calibration_start is None:` *)
LoopCheckStart ==
    /\ frame.pc = "l240"
    /\ frame' = [frame EXCEPT !.pc = IF calibration_start = None
                                     THEN "l241" ELSE "l242"]
    /\ step' = "l240"
    /\ cmd' = ""
    /\ acts' = << >>
    /\ UNCHANGED <<voice_only_mode, scroll_enabled, recalibrated, calibration_start,
                   recalibration_timer_start, pink_boxes, scroll_state, sleep_mode,
                   last_face_seen_time, current_time, now, listener, race>>
    /\ UNCHANGED loopHistory

(* line 241: `calibration_start = time.time()` *)
LoopStartHold ==
    /\ frame.pc = "l241"
    /\ calibration_start' = now
    /\ frame' = IdleFrame
    /\ race' = EndOfIteration(race)
    /\ step' = "l241"
    /\ cmd' = ""
    /\ acts' = << >>
    /\ UNCHANGED <<voice_only_mode, scroll_enabled, recalibrated,
                   recalibration_timer_start, pink_boxes, scroll_state, sleep_mode,
                   last_face_seen_time, current_time, now, listener>>
    /\ UNCHANGED loopHistory

\* faulty variant: a frame before the end of the hold restarts the hold
LoopCheckHold_restarting ==
    /\ frame.pc = "l242"
    /\ IF HoldComplete(now, calibration_start)
       THEN /\ frame' = [frame EXCEPT !.pc = "l244"]
            /\ race' = [race EXCEPT !.hold_read = calibration_start]
            /\ calibration_start' = calibration_start
       ELSE /\ frame' = IdleFrame
            /\ race' = EndOfIteration(race)
            /\ calibration_start' = now
    /\ step' = "l242"
    /\ cmd' = ""
    /\ acts' = << >>
    /\ UNCHANGED <<voice_only_mode, scroll_enabled, recalibrated,
                   recalibration_timer_start, pink_boxes, scroll_state, sleep_mode,
                   last_face_seen_time, current_time, now, listener>>
    /\ UNCHANGED loopHistory

(* line 242: `elif time.time() - calibration_start >= 2:` *)
LoopCheckHold ==
    /\ frame.pc = "l242"
    /\ IF HoldComplete(now, calibration_start)
       THEN /\ frame' = [frame EXCEPT !.pc = "l244"]
            /\ race' = [race EXCEPT !.hold_read = calibration_start]
       ELSE /\ frame' = IdleFrame
            /\ race' = EndOfIteration(race)
    /\ step' = "l242"
    /\ cmd' = ""
    /\ acts' = << >>
    /\ UNCHANGED <<voice_only_mode, scroll_enabled, recalibrated, calibration_start,
                   recalibration_timer_start, pink_boxes, scroll_state, sleep_mode,
                   last_face_seen_time, current_time, now, listener>>
    /\ UNCHANGED loopHistory

(* lines 244-247: the snapshot of the zones *)
LoopSnapshot ==
    /\ frame.pc = "l244"
    /\ pink_boxes' = Snapshot(frame.lm)
    /\ frame' = [frame EXCEPT !.pc = "l248"]
    /\ calib_frame' = frame.lm
    /\ zones_since' = current_time
    /\ hold_since' = IF hold_since = None THEN current_time ELSE hold_since
    /\ step' = "l244"
    /\ cmd' = ""
    /\ acts' = << >>
    /\ UNCHANGED <<voice_only_mode, scroll_enabled, recalibrated, calibration_start,
                   recalibration_timer_start, scroll_state, sleep_mode,
                   last_face_seen_time, current_time, now, listener, race>>
    /\ UNCHANGED <<last_frame, cond, inside, held, rise>>

(* line 248: `recalibrated = True` *)
LoopSetCalibrated ==
    /\ frame.pc = "l248"
    /\ recalibrated' = TRUE
    /\ frame' = [frame EXCEPT !.pc = "l249"]
    /\ step' = "l248"
    /\ cmd' = ""
    /\ acts' = << >>
    /\ UNCHANGED <<voice_only_mode, scroll_enabled, calibration_start,
                   recalibration_timer_start, pink_boxes, scroll_state, sleep_mode,
                   last_face_seen_time, current_time, now, listener, race>>
    /\ UNCHANGED loopHistory

(* line 249: `calibration_start = None` *)
LoopClearStart ==
    /\ frame.pc = "l249"
    /\ calibration_start' = None
    /\ frame' = IdleFrame
    /\ race' = EndOfIteration(race)
    /\ step' = "l249"
    /\ cmd' = ""
    /\ acts' = << >>
    /\ UNCHANGED <<voice_only_mode, scroll_enabled, recalibrated,
                   recalibration_timer_start, pink_boxes, scroll_state, sleep_mode,
                   last_face_seen_time, current_time, now, listener>>
    /\ UNCHANGED loopHistory

(* process_scroll, lines 264-282, up to the call of scroll_once: the read of
   scroll_enabled at line 267 and the tests of the condition and of the
   timers; a call that is to scroll stops before line 274 (278) *)
ScrollCheck ==
    /\ frame.pc = "l267"
    /\ LET d == Directions[frame.dir]
           c == conditions(frame.lm, pink_boxes)[d]
           r == process_scroll(scroll_state[d], d, c, scroll_enabled, current_time)
       IN  IF r.acts # << >>
           THEN /\ frame' = [frame EXCEPT !.pc = "l274"]
                /\ scroll_state' = scroll_state
                /\ UNCHANGED <<cond, held, rise>>
           ELSE /\ frame' = AfterCall(frame)
                /\ scroll_state' = [scroll_state EXCEPT ![d] = r.state]
                /\ cond' = [cond EXCEPT ![d] = c]
                /\ held' = [held EXCEPT
                              ![d] = HeldAfter(held[d], scroll_state[d], r.state, c)]
                /\ rise' = [rise EXCEPT
                              ![d] = RiseAfter(rise[d], cond[d], last_frame = "track",
                                               scroll_enabled, c, current_time)]
    /\ race' = [race EXCEPT !.checked = scroll_enabled, !.stopped = FALSE]
    /\ step' = "l267"
    /\ cmd' = ""
    /\ acts' = << >>
    /\ UNCHANGED <<voice_only_mode, scroll_enabled, recalibrated, calibration_start,
                   recalibration_timer_start, pink_boxes, sleep_mode,
                   last_face_seen_time, current_time, now, listener>>
    /\ UNCHANGED <<last_frame, inside, calib_frame, hold_since, zones_since>>

(* lines 273-275 (278-279): scroll_once is called and the timers are set *)
ScrollEmit ==
    /\ frame.pc = "l274"
    /\ LET d == Directions[frame.dir]
           r == process_scroll(scroll_state[d], d, TRUE, TRUE, current_time)
       IN  /\ acts' = r.acts
           /\ scroll_state' = [scroll_state EXCEPT ![d] = r.state]
           /\ frame' = AfterCall([frame EXCEPT !.fired = frame.fired \cup {d}])
           /\ cond' = [cond EXCEPT ![d] = TRUE]
           /\ held' = [held EXCEPT
                         ![d] = HeldAfter(held[d], scroll_state[d], r.state, TRUE)]
           /\ rise' = [rise EXCEPT
                         ![d] = RiseAfter(rise[d], cond[d], last_frame = "track",
                                          TRUE, TRUE, current_time)]
    /\ step' = "l274"
    /\ cmd' = ""
    /\ UNCHANGED <<voice_only_mode, scroll_enabled, recalibrated, calibration_start,
                   recalibration_timer_start, pink_boxes, sleep_mode,
                   last_face_seen_time, current_time, now, listener, race>>
    /\ UNCHANGED <<last_frame, inside, calib_frame, hold_since, zones_since>>

(* lines 299-314: the automatic recalibration, on what the main thread owns *)
LoopAutoRecalibrate ==
    /\ frame.pc = "l299"
    /\ LET a == automatic_recalibration(frame.lm, pink_boxes,
                                        recalibration_timer_start, current_time)
       IN  /\ pink_boxes' = a.pink_boxes
           /\ recalibration_timer_start' = a.recalibration_timer_start
           /\ calib_frame' = IF a.refreshed THEN frame.lm ELSE calib_frame
           /\ hold_since' = HoldSince(frame.lm, pink_boxes, hold_since,
                                      a.refreshed, current_time)
           /\ zones_since' = IF a.refreshed THEN current_time ELSE zones_since
    /\ inside' = is_all_inside_boxes(frame.lm, pink_boxes)
    /\ last_frame' = "track"
    /\ frame' = IdleFrame
    /\ race' = EndOfIteration(race)
    /\ step' = "l299"
    /\ cmd' = ""
    /\ acts' = << >>
    /\ UNCHANGED <<voice_only_mode, scroll_enabled, recalibrated, calibration_start,
                   scroll_state, sleep_mode, last_face_seen_time, current_time,
                   now, listener>>
    /\ UNCHANGED <<cond, held, rise>>

\* the statements of an iteration on a frame with a face, after its first
Statements ==
    \/ LoopCheckCalibrated
    \/ LoopCheckStart
    \/ LoopStartHold
    \/ LoopCheckHold
    \/ LoopSnapshot
    \/ LoopSetCalibrated
    \/ LoopClearStart
    \/ ScrollCheck
    \/ ScrollEmit
    \/ LoopAutoRecalibrate

\* the main loop on frames with a face
MainLoop(F, S) == LoopRead(F, S, Horizon) \/ Statements

(* lines 88-142: the listener matches a transcript, dt ticks after the last
   clock read, and makes the first write of its branch; the Recalibrate
   branch stops before its second write.  An iteration of the main loop
   takes less than a tick, so the clock moves only between iterations. *)
ListenerDispatch(U, D) ==
    /\ listener = "idle"
    /\ \E command \in U, dt \in D :
        LET t == now + dt
            intent == voice_intent(command, voice_only_mode, scroll_enabled)
            r == voice_command(command, voice_only_mode, scroll_enabled,
                               recalibrated, calibration_start, t)
        IN  /\ t <= Epoch + Horizon
            /\ dt = 0 \/ frame.pc = "idle"
            /\ now' = t
            /\ scroll_enabled' = r.scroll_enabled
            /\ recalibrated' = r.recalibrated
            /\ IF intent = "recalibrate"
               THEN /\ calibration_start' = calibration_start
                    /\ listener' = "l113"
               ELSE /\ calibration_start' = r.calibration_start
                    /\ listener' = "idle"
            /\ acts' = r.acts
            /\ cmd' = command
            /\ race' = [race EXCEPT
                          !.quiet = race.quiet /\ ~r.scroll_enabled,
                          !.loud = race.loud /\ r.scroll_enabled,
                          !.stopped = race.stopped \/ intent = "stop",
                          !.recal_at = IF intent = "recalibrate" THEN t
                                       ELSE race.recal_at]
    /\ step' = "voice"
    /\ UNCHANGED <<voice_only_mode, recalibration_timer_start, pink_boxes,
                   scroll_state, sleep_mode, last_face_seen_time, current_time,
                   frame>>
    /\ UNCHANGED loopHistory

(* line 113: `calibration_start = time.time()` *)
ListenerSetStart ==
    /\ listener = "l113"
    /\ calibration_start' = now
    /\ listener' = "idle"
    /\ race' = [race EXCEPT !.owed = TRUE]
    /\ step' = "l113"
    /\ cmd' = ""
    /\ acts' = << >>
    /\ UNCHANGED <<voice_only_mode, scroll_enabled, recalibrated,
                   recalibration_timer_start, pink_boxes, scroll_state, sleep_mode,
                   last_face_seen_time, current_time, now, frame>>
    /\ UNCHANGED loopHistory

----------------------------------------------------------------------------
(* The specifications: the main loop and the listener, statement by
   statement, on the inputs each group of properties needs. *)

(* The video loop with the listener switching scrolling off and on: the
   first calibration on frames 1 or 2 s apart, then a frame every 0.5 or 1.0 s. *)
Next ==
    \/ ListenerDispatch(SwitchUtterances, Instant)
    \/ ~recalibrated /\ LoopRead(ThreadFaces, ThreadSteps, Horizon)
    \/ recalibrated /\ LoopRead(ThreadFaces, TrackSteps, Horizon)
    \/ FrameNoFace(TrackSteps)
    \/ Statements

Spec == Init /\ [][Next]_vars

(* The video loop losing the face for seconds on end, with the listener
   switching scrolling off and on. *)
NextSleep ==
    \/ ListenerDispatch(SwitchUtterances, Instant)
    \/ FrameSkipped(SleepSteps)
    \/ FrameNoFace(SleepSteps)
    \/ MainLoop(ThreadFaces, SleepSteps)

SpecSleep == Init /\ [][NextSleep]_vars

(* The video loop with the listener forcing calibrations. *)
NextCalib ==
    \/ ListenerDispatch(CalibUtterances, Instant)
    \/ ListenerSetStart
    \/ FrameNoFace(ThreadSteps)
    \/ MainLoop(CalibFaces, ThreadSteps)

SpecCalib == Init /\ [][NextCalib]_vars

(* The listener hearing every transcript, in both modes, beside a video
   loop that sees a steady face while it calibrates and a turned face
   while it tracks. *)
NextVoice ==
    \/ ListenerDispatch(Utterances, Instant)
    \/ ListenerSetStart
    \/ ~recalibrated /\ LoopRead({Neutral}, CoarseSteps, Horizon)
    \/ recalibrated /\ LoopRead({TurnedLeft}, CoarseSteps, Horizon)
    \/ Statements

SpecVoice == Init /\ [][NextVoice]_vars

(* The video loop on faces that sit on, beside and across the zone edges,
   with the listener switching scrolling off and on. *)
NextGeometry ==
    \/ ListenerDispatch(SwitchUtterances, Instant)
    \/ MainLoop(GeometryFaces, ThreadSteps)

SpecGeometry == Init /\ [][NextGeometry]_vars

(* The video loop calibrating on a steady face and then tracking a head
   that turns left and back, one frame every 0.1 s; the listener hears
   nothing. *)
NextScenario ==
    \/ ~recalibrated /\ LoopRead({Neutral}, CoarseSteps, ScenarioHorizon)
    \/ recalibrated /\ LoopRead(ScenarioFaces, FineSteps, ScenarioHorizon)
    \/ Statements

SpecScenario == Init /\ [][NextScenario]_vars

(* The video loop going on for ever on frames with a face, after finitely
   many utterances and dropouts: the loop `while True` of the main thread
   never blocks, so a statement of the main loop that stays possible is
   eventually executed.  The listener hears nothing after RecalDeadline;
   the second write of a Recalibrate it has heard may come at any time. *)
LiveLoop == LoopRead(CalibFaces, LiveSteps, LiveHorizon) \/ Statements

NextLive ==
    \/ now <= Epoch + RecalDeadline /\ ListenerDispatch(CalibUtterances, VoiceSteps)
    \/ ListenerSetStart
    \/ now <= Epoch + RecalDeadline /\ FrameNoFace(LiveSteps)
    \/ LiveLoop

SpecLive == Init /\ [][NextLive]_vars /\ WF_vars(LiveLoop)

(* The video loop and the listener hearing Stop, Start and Recalibrate. *)
NextThreads ==
    \/ MainLoop(ThreadFaces, ThreadSteps)
    \/ ListenerDispatch(ThreadUtterances, Instant)
    \/ ListenerSetStart

SpecThreads == Init /\ [][NextThreads]_vars

----------------------------------------------------------------------------
(* Vocabulary of the properties. *)

\* scroll_once(d) was called by the statement that made the calls a
Fired(a, d) == \E i \in 1..Len(a) : a[i] = scroll_once(d)[1]

\* the categories a transcript matches, and the one of highest priority
Matched(u) == {c \in CategorySet : keyword_match[u][c]}
Rank(c) == CHOOSE i \in 1..Len(Categories) : Categories[i] = c
Top(u) ==
    IF Matched(u) = {} THEN "none"
    ELSE Categories[Min({Rank(c) : c \in Matched(u)})]

\* the statements of the main loop on a frame with a face
LoopSteps == {"read", "l238", "l240", "l241", "l242", "l244", "l248", "l249",
              "l267", "l274", "l299"}

\* this step ends a call of process_scroll, the one for Directions[frame.dir]:
\* the call returns without scrolling, or scroll_once has been called
CallDone == step' \in {"l267", "l274"} /\ frame'.pc # "l274"

\* lines 306-311 ran in this step: the hold timer was running and is
\* cleared on a frame whose landmarks are all inside the zones
AutoRefreshed ==
    /\ step' = "l299"
    /\ inside'
    /\ recalibration_timer_start # None
    /\ recalibration_timer_start' = None

\* the zone the documentation gives a landmark at pixel (x, y)
DocZone(x, y) == <<x - 20, x + 20, y - 20, y + 20>>

----------------------------------------------------------------------------
(* C1: Scroll Debouncer pattern.  On every call of process_scroll that
   belongs to a run begun by a rising edge of the direction's condition at
   t0 (the frame before had the condition false, and since then every frame
   was tracked with the condition true and the call read scroll_enabled
   true), the direction's action is emitted exactly when the frame is the
   one at t0, or is at t0 + 1.0 s or later with at least 0.3 s since the
   previous action; no action is emitted in (t0, t0 + 1.0 s); and a call
   with the condition false emits no action for the direction.  This holds
   after any prior history. *)
C1_DebouncePattern ==
    [][ CallDone =>
          LET d == Directions[frame.dir]
          IN  /\ rise'[d] # None =>
                   ( Fired(acts', d) <=>
                       \/ current_time = rise'[d]
                       \/ /\ current_time >= rise'[d] + 10
                          /\ current_time - scroll_state[d].last_scroll_time >= 3 )
              /\ ~cond'[d] => ~Fired(acts', d) ]_vars

(* C4: Automatic re-calibration hysteresis.  The automatic path re-centres
   the zones only when all tracked landmarks have been inside their zones
   on every frame with a face for at least 3.0 s, and then all zones are
   re-snapshotted to the current positions and the hold timer is cleared;
   a tracked frame with a landmark outside its zone leaves every zone
   unchanged and clears the hold timer. *)
C4_RecalibrationHysteresis ==
    [][ /\ AutoRefreshed =>
             /\ hold_since' # None
             /\ current_time - hold_since' >= 30
             /\ pink_boxes' = [idx \in TrackedSet |->
                                 DocZone(px(calib_frame', idx), py(calib_frame', idx))]
        /\ (step' = "l299" /\ ~inside') =>
             /\ pink_boxes' = pink_boxes
             /\ recalibration_timer_start' = None ]_vars

(* C5: ScrollDirectionState invariant.  At every frame boundary and for
   each direction, start_time is non-null if and only if the direction's
   condition has been true on every frame that evaluated it since
   start_time was last set. *)
C5_StartTimeInvariant ==
    frame.pc = "idle" =>
        \A d \in DirSet : (scroll_state[d].start_time # None) <=> held[d]

----------------------------------------------------------------------------
(* C2: Voice Command Dispatcher resolution.  Whatever categories the
   transcript of an utterance matches, the listener applies the effect of
   the matched category of highest priority in the order Stop > Start >
   Recalibrate > ZoomIn > ZoomOut > ZoomReset > Up > Down > Left > Right
   and nothing else: Stop only clears scroll_enabled, Start only sets it,
   Recalibrate only clears recalibrated and then, in its second statement,
   sets calibration_start to the current time, a Zoom intent only makes its
   zoom call, a directional intent makes at most its own scroll call, and a
   transcript matching no category changes nothing and makes no call. *)
C2_DispatchResolution ==
    [][ /\ step' = "voice" =>
          LET top == Top(cmd')
          IN  /\ UNCHANGED <<recalibration_timer_start, pink_boxes, scroll_state,
                             sleep_mode, last_face_seen_time, voice_only_mode>>
              /\ listener' = IF top = "recalibrate" THEN "l113" ELSE "idle"
              /\ CASE top = "stop" ->
                        /\ scroll_enabled' = FALSE
                        /\ UNCHANGED <<recalibrated, calibration_start>>
                        /\ acts' = << >>
                   [] top = "start" ->
                        /\ scroll_enabled' = TRUE
                        /\ UNCHANGED <<recalibrated, calibration_start>>
                        /\ acts' = << >>
                   [] top = "recalibrate" ->
                        /\ recalibrated' = FALSE
                        /\ UNCHANGED <<scroll_enabled, calibration_start>>
                        /\ acts' = << >>
                   [] top = "zoom_in" ->
                        /\ acts' = << Event("hotkey", 0, "ctrl +") >>
                        /\ UNCHANGED <<scroll_enabled, recalibrated, calibration_start>>
                   [] top = "zoom_out" ->
                        /\ acts' = << Event("hotkey", 0, "ctrl -") >>
                        /\ UNCHANGED <<scroll_enabled, recalibrated, calibration_start>>
                   [] top = "zoom_reset" ->
                        /\ acts' = << Event("hotkey", 0, "ctrl 0") >>
                        /\ UNCHANGED <<scroll_enabled, recalibrated, calibration_start>>
                   [] top \in DirSet ->
                        /\ acts' \in {<< >>, scroll_once(top)}
                        /\ UNCHANGED <<scroll_enabled, recalibrated, calibration_start>>
                   [] OTHER ->
                        /\ acts' = << >>
                        /\ UNCHANGED <<scroll_enabled, recalibrated, calibration_start>>
        /\ step' = "l113" =>
              /\ listener = "l113"
              /\ calibration_start' = now'
              /\ acts' = << >>
              /\ UNCHANGED <<scroll_enabled, recalibrated, recalibration_timer_start,
                             pink_boxes, scroll_state, sleep_mode,
                             last_face_seen_time, voice_only_mode>>
        /\ listener # listener' => step' \in {"voice", "l113"}
      ]_vars

\* an utterance matching Recalibrate and ZoomIn has forced a calibration and
\* has not zoomed
C2_Witness ==
    /\ step = "voice"
    /\ Matched(cmd) = {"recalibrate", "zoom_in"}
    /\ ~recalibrated
    /\ listener = "l113"
    /\ acts = << >>
    /\ zones_since # None

(* C3: Initial calibration hold.  The zones are snapshotted by the
   calibration branch and recalibrated is set to true only in an iteration
   on a frame with a face whose test at line 242 read a calibration_start
   at least 2.0 s old; the first zones appear in such an iteration, and it
   ends by clearing calibration_start; a frame without a face leaves
   calibration_start, the zones and recalibrated unchanged. *)
C3_InitialCalibrationHold ==
    [][ /\ ( \/ ~recalibrated /\ recalibrated'
             \/ DOMAIN pink_boxes = {} /\ DOMAIN pink_boxes' # {}
             \/ step' \in {"l244", "l248", "l249"} ) =>
               /\ step' \in {"l244", "l248", "l249"}
               /\ race.hold_read # None
               /\ now - race.hold_read >= 20
               /\ current_time = now
               /\ DOMAIN pink_boxes' = TrackedSet
        /\ step' \in {"l244", "l248"} => ~recalibrated
        /\ step' = "l248" => recalibrated'
        /\ step' = "l249" => calibration_start' = None
        /\ (step' = "l242" /\ frame'.pc = "l244") =>
               /\ ~recalibrated
               /\ calibration_start # None
               /\ now - calibration_start >= 20
        /\ step' \in {"noface", "skip"} =>
               UNCHANGED <<calibration_start, pink_boxes, recalibrated>> ]_vars

\* the hold has completed on a frame with a face at a drifted position
C3_Witness ==
    /\ step = "l249"
    /\ recalibrated
    /\ calibration_start = None
    /\ pink_boxes = [idx \in TrackedSet |->
                        DocZone(px(Drift, idx), py(Drift, idx))]
    /\ current_time > Epoch + 40

(* C6: Disabled debouncer frame condition.  A call of process_scroll that
   reads scroll_enabled as false makes no scroll call and leaves start_time
   and last_scroll_time of all four directions unchanged, whatever the
   condition is. *)
C6_DisabledDebouncer ==
    [][ (step' = "l267" /\ ~scroll_enabled) =>
            /\ scroll_state' = scroll_state
            /\ acts' = << >>
            /\ frame'.pc # "l274" ]_vars

\* the four calls of an iteration begun with scrolling off have returned,
\* one condition true, and a running start_time whose condition is false
C6_Witness ==
    /\ step = "l267"
    /\ frame.pc = "l299"
    /\ race.quiet
    /\ ~race.checked
    /\ \E d \in DirSet : cond[d]
    /\ \E d \in DirSet : ~cond[d] /\ scroll_state[d].start_time # None

(* C7: Sleep Monitor invariant.  After every processed frame, sleep_mode is
   true if and only if more than 5.0 s lie between the clock reading of the
   frame and last_face_seen_time (the readings are floats: those of 16.1 s
   and 11.1 s are more than 5.0 apart); after a frame with a face sleep_mode
   is false and last_face_seen_time is the time of that frame. *)
C7_SleepInvariant ==
    last_frame # "none" =>
        /\ sleep_mode <=> elapsed_over(current_time, last_face_seen_time, 50)
        /\ last_frame \in {"calib", "track"} =>
               ~sleep_mode /\ last_face_seen_time = current_time

\* asleep after a frame without a face, the face once seen
C7_Witness ==
    /\ sleep_mode
    /\ last_frame = "noface"
    /\ last_face_seen_time > Epoch
    /\ current_time - last_face_seen_time > 50

(* C8: Zone geometry and wholesale overwrite.  The zone table is empty, or
   it holds for each of the three tracked landmarks the zone
   (x-20, x+20, y-20, y+20) of the landmark's pixel position (x, y) in one
   and the same frame, the last frame that (re)calibrated. *)
C8_ZoneGeometry ==
    \/ DOMAIN pink_boxes = {} /\ DOMAIN calib_frame = {}
    \/ /\ DOMAIN pink_boxes = TrackedSet
       /\ DOMAIN calib_frame = TrackedSet
       /\ \A idx \in TrackedSet :
            pink_boxes[idx] = DocZone((calib_frame[idx][1] * FrameW) \div 1000,
                                      (calib_frame[idx][2] * FrameH) \div 1000)

\* the automatic path has just re-snapshotted the zones at a drifted position
C8_Witness ==
    /\ step = "l299"
    /\ inside
    /\ recalibration_timer_start = None
    /\ calib_frame = Drift
    /\ pink_boxes[forehead_idx] # Zone(px(Neutral, forehead_idx), py(Neutral, forehead_idx))

(* C9: Voice directional scroll gating.  An utterance whose matched
   category of highest priority is directional makes exactly the scroll
   call of the first matching direction in the order Up, Down, Left, Right
   when voice_only_mode and scroll_enabled are both true, and no call at
   all otherwise; in both cases scroll_state is left as it was. *)
C9_VoiceDirectionalGating ==
    [][ (step' = "voice" /\ Top(cmd') \in DirSet) =>
          LET order == <<"up", "down", "left", "right">>
              first == order[Min({i \in 1..4 : keyword_match[cmd'][order[i]]})]
          IN  /\ acts' = IF voice_only_mode /\ scroll_enabled
                         THEN scroll_once(first) ELSE << >>
              /\ scroll_state' = scroll_state ]_vars

\* "left right" in voice-only mode has pressed the left key three times
C9_Witness ==
    /\ step = "voice"
    /\ voice_only_mode
    /\ cmd = "left right"
    /\ acts = <<Event("press", 0, "left"), Event("press", 0, "left"),
                Event("press", 0, "left")>>

(* C10: Calibration state machine.  recalibrated goes from false to true
   only at line 248, in an iteration on a frame with a face whose test at
   line 242 found the 2.0 s hold complete, and from true to false only by
   the first statement of an utterance whose intent is Recalibrate; the
   automatic re-calibration does not write recalibrated; no statement of
   the video loop sets recalibrated to false. *)
C10_CalibrationStateMachine ==
    [][ /\ (~recalibrated /\ recalibrated') =>
              /\ step' = "l248"
              /\ race.hold_read # None
              /\ now - race.hold_read >= 20
        /\ (recalibrated /\ ~recalibrated') =>
              /\ step' = "voice"
              /\ Top(cmd') = "recalibrate"
        /\ step' = "l299" => recalibrated' = recalibrated
        /\ step' \in LoopSteps \cup {"skip", "noface"} =>
              (recalibrated => recalibrated') ]_vars

\* a Recalibrate utterance has sent a calibrated system back to the hold
C10_Witness ==
    /\ step = "l113"
    /\ race.recal_at = now
    /\ ~recalibrated
    /\ DOMAIN pink_boxes = TrackedSet
    /\ calibration_start = now

----------------------------------------------------------------------------
(* C12: No-face frames are inert.  A processed frame without a face leaves
   recalibrated, calibration_start, recalibration_timer_start,
   scroll_enabled, the zones and the four ScrollDirectionStates unchanged
   and makes no scroll call; the only thing it may change is sleep_mode,
   from false to true.  The sleep transitions contribute nothing to
   ControlState: sleep is entered only on such a frame; sleep is left only
   by the statements that begin an iteration on a frame with a face, which
   change no ControlState field, no zone and no ScrollDirectionState; and
   every later statement of that iteration runs with sleep_mode false, so
   that sleep_mode plays no part in it. *)
C12_NoFaceInert ==
    [][ /\ step' = "noface" =>
             /\ UNCHANGED <<recalibrated, calibration_start,
                            recalibration_timer_start, scroll_enabled,
                            pink_boxes, scroll_state>>
             /\ acts' = << >>
             /\ sleep_mode' # sleep_mode => (~sleep_mode /\ sleep_mode')
        /\ (~sleep_mode /\ sleep_mode') => step' = "noface"
        /\ (sleep_mode /\ ~sleep_mode') =>
             /\ step' = "read"
             /\ UNCHANGED <<recalibrated, calibration_start,
                            recalibration_timer_start, scroll_enabled,
                            pink_boxes, scroll_state>>
             /\ acts' = << >>
        /\ step' \in LoopSteps => ~sleep_mode' ]_vars

\* a frame without a face has passed over a calibrated tracker whose
\* debouncer was running
C12_Witness ==
    /\ step = "noface"
    /\ recalibrated
    /\ \E d \in DirSet : scroll_state[d].start_time # None

----------------------------------------------------------------------------
(* C18: Neutral position triggers nothing.  In every iteration that tracks
   a frame on which is_all_inside_boxes is true, each of the four calls of
   process_scroll has its condition false, makes no scroll call and, when it
   reads scroll_enabled true, clears the start_time of its direction; and
   the landmarks a (re)calibration snapshots are inside the zones it
   installs with no condition true, so the frame right after it with the
   landmarks unchanged triggers no direction. *)
C18_NeutralTriggersNothing ==
    [][ /\ (step' \in {"l267", "l274"}
              /\ is_all_inside_boxes(frame.lm, pink_boxes)) =>
             LET d == Directions[frame.dir]
             IN  /\ CallDone
                 /\ ~cond'[d]
                 /\ acts' = << >>
                 /\ scroll_enabled => scroll_state'[d].start_time = None
        /\ pink_boxes' # pink_boxes =>
             /\ is_all_inside_boxes(calib_frame', pink_boxes')
             /\ conditions(calib_frame', pink_boxes') = NoCond ]_vars

\* a tracked frame whose landmarks came back inside their zones, arriving
\* a second after a debouncer had scrolled
C18_Witness ==
    /\ step = "l299"
    /\ inside
    /\ scroll_enabled
    /\ pink_boxes = Snapshot(Neutral)
    /\ hold_since = current_time
    /\ \A d \in DirSet : scroll_state[d].start_time = None
    /\ \E d \in DirSet : scroll_state[d].last_scroll_time = current_time - 10

(* C19: Left and right are mutually exclusive.  On every tracked frame the
   left and the right condition are not both true, and the iteration does
   not call scroll_once for both left and right; up and down have no such
   guarantee (the witness is a frame on which both are true and both
   scroll). *)
C19_LeftRightExclusive ==
    [][ step' \in {"l267", "l274"} =>
          LET c == conditions(frame.lm, pink_boxes)
          IN  /\ ~(c["left"] /\ c["right"])
              /\ ~({"left", "right"} \subseteq frame'.fired) ]_vars

\* one frame on which up and down are both true and both scroll
C19_Witness ==
    /\ frame.pc = "l299"
    /\ frame.fired = {"up", "down"}
    /\ cond["up"] /\ cond["down"]
    /\ ~cond["left"] /\ ~cond["right"]

----------------------------------------------------------------------------
(* C13: Debounce timing, worked scenario.  With scroll_enabled true,
   scroll_delay 0.3 s, an idle left state and a frame every 0.1 s, a head
   held beyond overall_left for 1.5 s (condition true on the frames at
   t = 0 .. 1.5 s, released on the frame at 1.6 s) produces left actions at
   exactly t = 0, 1.0, 1.3 and 1.6 s.  (As stated.) *)
C13_WorkedScenario ==
    [][ (CallDone /\ Directions[frame.dir] = "left") =>
          /\ (rise'["left"] # None /\ current_time - rise'["left"] <= 15) =>
                ( Fired(acts', "left") <=>
                    current_time - rise'["left"] \in {0, 10, 13} )
          /\ (rise["left"] # None /\ ~cond'["left"]
                /\ current_time - rise["left"] = 16) =>
                Fired(acts', "left") ]_vars

\* the clock readings of the frames a and b ticks into a hold begun at t0 are
\* at least `bound` apart, b - a being exactly the bound in ticks
ReadingsApart(t0, a, b, bound) ==
    float_err(t0 + b) - float_err(t0 + a) >= literal_err(bound)

(* C13, amended: under the same conditions, the clock readings being
   floats (the doubles nearest the tenths of a second), a head held for
   1.5 s produces exactly three left actions.  The first is at t = 0.  The
   second is on the first frame whose reading is at least 1.0 above that of
   the frame at 0: at t = 1.0 s, or at t = 1.1 s when the readings at 0 and
   1.0 s are less than 1.0 apart (16.4 - 15.4 < 1.0).  The third is on the
   first frame whose reading is at least 0.3 above that of the second
   action: 0.3 s after it, or 0.4 s after it when those two readings are
   less than 0.3 apart (15.6 - 15.3 < 0.3).  No other frame of the hold
   produces an action, and a frame on which the head is no longer held
   produces none, so a fourth action needs the head still held at 1.6 s or
   later. *)
C13_HeldScenario ==
    [][ (CallDone /\ Directions[frame.dir] = "left") =>
          LET t0 == rise'["left"]
              r == current_time - t0
              sec == ReadingsApart(t0, 0, 10, sustain_time)
          IN  /\ (t0 # None /\ r <= 15) =>
                    ( Fired(acts', "left") <=>
                        \/ r = 0
                        \/ r = 10 /\ sec
                        \/ r = 11 /\ ~sec
                        \/ r = 13 /\ sec /\ ReadingsApart(t0, 10, 13, scroll_delay)
                        \/ r = 14 /\ sec /\ ~ReadingsApart(t0, 10, 13, scroll_delay)
                        \/ r = 14 /\ ~sec /\ ReadingsApart(t0, 11, 14, scroll_delay)
                        \/ r = 15 /\ ~sec /\ ~ReadingsApart(t0, 11, 14, scroll_delay) )
              /\ ~cond'["left"] => ~Fired(acts', "left") ]_vars

\* a hold across 16.0 s: the second action comes on the frame 1.1 s into the
\* hold, the readings of the frames at 0 and 1.0 s being less than 1.0 apart
C13_Witness ==
    /\ step = "l274"
    /\ rise["left"] # None
    /\ current_time = rise["left"] + 11
    /\ Fired(acts, "left")
    /\ scroll_state["left"].start_time = rise["left"]
    /\ ~ReadingsApart(rise["left"], 0, 10, sustain_time)

----------------------------------------------------------------------------
(* C16: Spacing of automatic re-calibration.  After a (re)calibration has
   installed zones at time T, the automatic path next re-snapshots them no
   earlier than T + 3.0 s, and the hold timer it relies on was started
   after T by a run of tracked frames inside the zones that no voice
   Recalibrate and no frame without a face has interrupted: the processed
   frame before the refreshing one was tracked and inside. *)
C16_RecalibrationSpacing ==
    [][ AutoRefreshed =>
          /\ zones_since # None
          /\ current_time - zones_since >= recalibration_hold_time
          /\ recalibration_timer_start >= zones_since
          /\ last_frame = "track" /\ inside ]_vars

----------------------------------------------------------------------------
(* C17: Calibration liveness.  In voice + gaze mode, when frames with a
   face keep being processed, time advances and only finitely many
   Recalibrate intents are dispatched, every state with recalibrated false
   is followed by one with recalibrated true and zones for the three
   tracked landmarks. *)
C17_CalibrationLiveness ==
    (~voice_only_mode /\ ~recalibrated)
        ~> (recalibrated /\ DOMAIN pink_boxes = TrackedSet)

\* a calibration completed after the last Recalibrate had restarted the hold
C17_Witness ==
    /\ step = "l249"
    /\ recalibrated
    /\ DOMAIN pink_boxes = TrackedSet
    /\ zones_since = current_time
    /\ race.recal_at # None
    /\ calib_frame = Drift
    /\ current_time >= Epoch + RecalDeadline + calibration_hold_time

----------------------------------------------------------------------------
(* C11: Cross-context visibility of Stop/Start.  Under every interleaving of
   the two threads, no statement of the frame loop writes scroll_enabled; an
   iteration that began while scroll_enabled was false, with no Start
   applied since it began, calls scroll_once for no direction (only an
   iteration already in progress when Stop is written may still scroll);
   and in an iteration that began while scroll_enabled was true, with no
   Stop applied since it began, every process_scroll call acts as the
   debouncer with scrolling enabled does. *)
C11_StopStartVisibility ==
    [][ /\ step' \in LoopSteps => scroll_enabled' = scroll_enabled
        /\ step' = "l274" => ~race.quiet
        /\ (step' = "l267" /\ race.loud) =>
              LET d == Directions[frame.dir]
                  c == conditions(frame.lm, pink_boxes)[d]
              IN  /\ (c /\ scroll_state[d].start_time = None) => frame'.pc = "l274"
                  /\ ~c => scroll_state'[d].start_time = None ]_vars

\* an iteration begun after a Stop has passed the process_scroll call for
\* left with the head turned left, and goes on to the next call
C11_Witness ==
    /\ step = "l267"
    /\ race.quiet
    /\ ~scroll_enabled
    /\ pink_boxes = Snapshot(Neutral)
    /\ frame.lm = TurnedLeft
    /\ frame.pc = "l267"
    /\ Directions[frame.dir - 1] = "left"

(* C14: Voice-triggered recalibration is never lost.  Under every
   interleaving of the listener's two writes (recalibrated = False at line
   112, then calibration_start = time.time() at line 113) with the
   calibration statements of the main loop, the first iteration that begins
   after the two writes of a Recalibrate reads recalibrated as false at
   line 238, and recalibrated is not set to true before 2.0 s after the
   Recalibrate. *)
C14_RecalibrationNotLost ==
    [][ /\ (step' = "l238" /\ race.must_see) => ~recalibrated
        /\ (step' = "l248" /\ race.recal_at # None) =>
              now >= race.recal_at + calibration_hold_time ]_vars

(* C15: No gaze scroll while disabled, at statement granularity.  Under
   every interleaving of the two threads, at the moment process_scroll
   calls scroll_once the current value of scroll_enabled is true.
   (As stated.) *)
C15_EnabledAtCall ==
    [][ step' = "l274" => scroll_enabled ]_vars

(* C15, amended: at the moment process_scroll calls scroll_once, the value
   of scroll_enabled this call read at line 267 was true; the current value
   is false only when a Stop was applied between that read and the call,
   and then the action is still emitted. *)
C15_CheckedBeforeCall ==
    [][ step' = "l274" =>
          /\ race.checked
          /\ ~scroll_enabled => race.stopped ]_vars

\* scroll_once has just been called although a Stop landed after the check
C15_Witness ==
    /\ step = "l274"
    /\ acts # << >>
    /\ ~scroll_enabled
    /\ race.checked
    /\ race.stopped

====
